---- MODULE Spec2Model ----
(***************************************************************************)
(* Model of the PR Comments Viewer extension:                              *)
(*   - the retrying fetch client (github/client.ts,                        *)
(*     fetchPRCommentsWithRetry, calculateRetryDelay) with the local       *)
(*     credential check (utils/config.ts, validateToken);                  *)
(*   - the thread builder of the tree view (views/commentTreeProvider.ts,  *)
(*     setComments / buildThreads / counts).                               *)
(*                                                                         *)
(* JavaScript strings that the code inspects character by character        *)
(* (tokens, header values) are sequences of one-character strings; strings *)
(* that are only passed along (messages, handles, paths) are TLA+ strings. *)
(* An optional value (undefined / null in the source) is a sequence of     *)
(* length 0 (None) or 1 (Some(v)).                                         *)
(***************************************************************************)
EXTENDS Integers, Sequences, FiniteSets, TLC

None == <<>>
Some(v) == <<v>>

(***************************************************************************)
(* Bounds of the model.                                                    *)
(***************************************************************************)
\* longest run of filler characters appended to a token without a
\* recognized prefix (so that lengths 19, 20 and 21 occur)
MaxFill == 21
\* longest run of filler characters appended to a recognized prefix
MaxPrefixedFill == 1
\* most API records in one listing response
MaxRecords == 2
\* most comments in one list handed to the tree provider
MaxComments == 3
\* most comments of a.ts in one list shown while filters are in use
MaxShown == 2
\* most refresh() calls of the tree provider in one run
MaxRefreshes == 3
\* most onRefresh calls started by the timer in one run
MaxCycles == 2
\* most invocations of fetchPRComments in one run
MaxInvocations == 2

(***************************************************************************)
(* Program constants.                                                      *)
(***************************************************************************)
MAX_RETRIES == 3
INITIAL_RETRY_DELAY_MS == 1000
MIN_UNPREFIXED_TOKEN_LENGTH == 20

(***************************************************************************)
(* Character-level helpers (String.prototype.trim, startsWith, parseInt).  *)
(***************************************************************************)
IsWhitespace(c) == c \in {" ", "\t"}

IsDigit(c) == c \in {"0", "1", "2", "3", "4", "5", "6", "7", "8", "9"}

DigitVal(c) ==
    CASE c = "0" -> 0 [] c = "1" -> 1 [] c = "2" -> 2 [] c = "3" -> 3
      [] c = "4" -> 4 [] c = "5" -> 5 [] c = "6" -> 6 [] c = "7" -> 7
      [] c = "8" -> 8 [] c = "9" -> 9

RECURSIVE TrimStart(_)
TrimStart(s) ==
    IF s = <<>> THEN <<>>
    ELSE IF IsWhitespace(Head(s)) THEN TrimStart(Tail(s)) ELSE s

RECURSIVE TrimEnd(_)
TrimEnd(s) ==
    IF s = <<>> THEN <<>>
    ELSE IF IsWhitespace(s[Len(s)]) THEN TrimEnd(SubSeq(s, 1, Len(s) - 1)) ELSE s

\* String.prototype.trim
Trim(s) == TrimEnd(TrimStart(s))

\* String.prototype.startsWith
StartsWith(s, prefix) ==
    /\ Len(s) >= Len(prefix)
    /\ SubSeq(s, 1, Len(prefix)) = prefix

RECURSIVE DigitPrefix(_)
\* the longest prefix of s made of decimal digits
DigitPrefix(s) ==
    IF s = <<>> \/ ~IsDigit(Head(s)) THEN <<>>
    ELSE <<Head(s)>> \o DigitPrefix(Tail(s))

RECURSIVE DecimalValue(_, _)
DecimalValue(digits, acc) ==
    IF digits = <<>> THEN acc
    ELSE DecimalValue(Tail(digits), acc * 10 + DigitVal(Head(digits)))

\* parseInt(s, 10): leading whitespace is skipped, one sign is accepted, the
\* longest run of digits is read and anything after it ignored; NaN (None)
\* when no digit is read.
ParseInt(s) ==
    LET t == TrimStart(s)
        signed == t # <<>> /\ Head(t) \in {"-", "+"}
        negative == t # <<>> /\ Head(t) = "-"
        digits == DigitPrefix(IF signed THEN Tail(t) ELSE t)
    IN IF digits = <<>> THEN None
       ELSE Some(IF negative THEN 0 - DecimalValue(digits, 0)
                 ELSE DecimalValue(digits, 0))

Fill(c, n) == [i \in 1..n |-> c]

RECURSIVE Pow2(_)
\* Math.pow(2, n)
Pow2(n) == IF n = 0 THEN 1 ELSE 2 * Pow2(n - 1)

(***************************************************************************)
(* utils/config.ts: validateToken.                                         *)
(***************************************************************************)
validPrefixes ==
    { <<"g","h","p","_">>,
      <<"g","i","t","h","u","b","_","p","a","t","_">>,
      <<"g","h","o","_">>, <<"g","h","u","_">>,
      <<"g","h","s","_">>, <<"g","h","r","_">> }

hasValidPrefix(token) == \E prefix \in validPrefixes : StartsWith(token, prefix)

MSG_TOKEN_EMPTY == "GitHub token is empty"
MSG_TOKEN_SHORT == "Token appears too short to be valid"

\* mutant: the minimum-length fallback is dropped, any non-blank token passes
validateToken_NoLengthCheck(token) ==
    IF token = <<>> \/ Len(Trim(token)) = 0
    THEN [valid |-> FALSE, message |-> Some(MSG_TOKEN_EMPTY)]
    ELSE [valid |-> TRUE, message |-> None]

\* mutant: the too-short rejection carries no message
validateToken_NoMessage(token) ==
    IF token = <<>> \/ Len(Trim(token)) = 0
    THEN [valid |-> FALSE, message |-> Some(MSG_TOKEN_EMPTY)]
    ELSE IF ~hasValidPrefix(token) /\ Len(token) < MIN_UNPREFIXED_TOKEN_LENGTH
    THEN [valid |-> FALSE, message |-> None]
    ELSE [valid |-> TRUE, message |-> None]

validateToken(token) ==
    IF token = <<>> \/ Len(Trim(token)) = 0
    THEN [valid |-> FALSE, message |-> Some(MSG_TOKEN_EMPTY)]
    ELSE IF ~hasValidPrefix(token) /\ Len(token) < MIN_UNPREFIXED_TOKEN_LENGTH
    THEN [valid |-> FALSE, message |-> Some(MSG_TOKEN_SHORT)]
    ELSE [valid |-> TRUE, message |-> None]


(***************************************************************************)
(* State.                                                                  *)
(***************************************************************************)
VARIABLES
    \* ---- one invocation of fetchPRCommentsWithRetry ----
    pc,          \* "idle", "await" (listing call in flight), "resumed" (its
                 \* outcome delivered, continuation not yet run), "sleep"
                 \* (retry delay running), "done" (the promise has settled)
    authToken,   \* the local authToken (token || config.githubToken)
    attempt,     \* the loop variable
    lastError,   \* the local lastError: None or Some(message)
    result,      \* the FetchResult the invocation returned: None or Some(r)
    response,    \* outcome of the most recent listing call: None or Some(r)
    delay,       \* delay handed to the most recent sleep(): None or Some(ms)
    calls,       \* listing calls made by this invocation
    sleeps,      \* sleep() calls made by this invocation
    \* ---- CommentTreeProvider ----
    commentsByFile, \* the map last handed to setComments (path -> comments)
    threads,        \* this.threads: path -> sequence of CommentThread
    reviewers,      \* this.reviewers
    filterOptions,  \* this.filterOptions
    refreshes,      \* refresh() calls so far: onDidChangeTreeData events fired
    \* ---- utils/autoRefresh.ts ----
    refreshTimer,    \* the interval timer: None, or Some(its period in ms)
    isRefreshing,    \* the flag of performRefresh
    callbacks,       \* the stored callbacks: None, or Some(the object handed in)
    refreshInterval, \* the setting prComments.refreshInterval, in minutes
    inFlight,        \* onRefresh calls started by the timer and not yet settled
    started,         \* onRefresh calls started by the timer so far
    \* ---- git/repository.ts ----
    remote,       \* the remote URL handed to parseGitRemoteUrl, with its parts
    parsedRemote, \* what parseGitRemoteUrl returned for it (None: null)
    branch,       \* the branch name handed to extractPRNumberFromBranch
    prNumber,     \* what extractPRNumberFromBranch returned for it (None: null)
    \* ---- commands/fetchComments.ts, commands/commentActions.ts ----
    commentsStorage, \* the global Map commentsByFile of fetchComments.ts
    currentRepoInfo, \* the module variable of commentActions.ts (None: null)
    invocation,      \* the invocations of fetchPRComments: where each one
                     \* stands, its locals repoInfo and result, what it
                     \* returned, and the handler that called it
    \* ---- history ----
    lastCall \* the function of the provider or of auto-refresh that ran last

fetchVars == <<pc, authToken, attempt, lastError, result, response, delay, calls, sleeps>>
treeVars == <<commentsByFile, threads, reviewers>>
viewVars == <<filterOptions, refreshes>>
repoVars == <<remote, parsedRemote, branch, prNumber>>
cmdVars == <<commentsStorage, currentRepoInfo, invocation>>
autoVars == <<refreshTimer, isRefreshing, callbacks, refreshInterval, inFlight, started>>
vars == <<pc, authToken, attempt, lastError, result, response, delay, calls, sleeps,
          commentsByFile, threads, reviewers, filterOptions, refreshes,
          refreshTimer, isRefreshing, callbacks, refreshInterval, inFlight, started,
          remote, parsedRemote, branch, prNumber,
          commentsStorage, currentRepoInfo, invocation, lastCall>>

(***************************************************************************)
(* github/client.ts: calculateRetryDelay.                                  *)
(***************************************************************************)
\* a JavaScript string used as a condition: present and not empty
Truthy(optString) == optString # None /\ optString[1] # <<>>

\* mutant: linear instead of exponential backoff
calculateRetryDelay_Linear(attemptNo, retryAfter) ==
    IF Truthy(retryAfter) /\ ParseInt(retryAfter[1]) # None
    THEN ParseInt(retryAfter[1])[1] * 1000
    ELSE INITIAL_RETRY_DELAY_MS * (attemptNo + 1)

calculateRetryDelay(attemptNo, retryAfter) ==
    IF Truthy(retryAfter) /\ ParseInt(retryAfter[1]) # None
    THEN ParseInt(retryAfter[1])[1] * 1000
    ELSE INITIAL_RETRY_DELAY_MS * Pow2(attemptNo)

(***************************************************************************)
(* Inputs of one invocation: the credential, and what the listing call     *)
(* does on each attempt.                                                   *)
(***************************************************************************)
\* beginnings that are not recognized prefixes: none, a near miss, and a
\* recognized prefix behind a leading blank
OtherPrefixes == { <<>>, <<"g","h","_">>, <<" ","g","h","p","_">> }

TokenStrings ==
    { p \o Fill("x", n) : p \in validPrefixes, n \in 0..MaxPrefixedFill }
    \cup { p \o Fill("x", n) : p \in OtherPrefixes, n \in 0..MaxFill }
    \cup { Fill(" ", n) : n \in 0..MaxFill }

\* the optional token parameter
TokenArgs == {None} \cup { Some(t) : t \in TokenStrings }

\* getConfig().githubToken ('' when the setting is unset)
ConfigTokens == { <<>>, <<"x">>, <<"g","h","p","_","x">> }

\* values of the retry-after header: absent, "", "60", "0", "-5", "ab", "7x"
HintValues ==
    { None, Some(<<>>), Some(<<"6","0">>), Some(<<"0">>), Some(<<"-","5">>),
      Some(<<"a","b">>), Some(<<"7","x">>) }

\* What a listing call can throw.  kind "Error": an Error instance (Octokit's
\* RequestError when it has a status, any other Error when it has none);
\* kind "object": a plain object that is no Error (as the repository's tests
\* reject with); kind "string": a thrown string, its text in message.
ThrownValues ==
    { [kind |-> "Error", status |-> Some(st), message |-> m, retryAfter |-> None]
        : st \in {401, 404, 422, 403, 429, 500, 503}, m \in {"", "request failed"} }
    \cup { [kind |-> "Error", status |-> Some(st), message |-> "limited", retryAfter |-> h]
        : st \in {403, 429, 503}, h \in HintValues }
    \cup { [kind |-> "Error", status |-> None, message |-> m, retryAfter |-> None]
        : m \in {"", "socket hang up"} }
    \cup { [kind |-> "object", status |-> Some(st), message |-> "", retryAfter |-> None]
        : st \in {401, 500} }
    \cup { [kind |-> "string", status |-> None, message |-> "boom", retryAfter |-> None] }

\* One record of the listing response; only the fields the client reads.
ApiRecords(i) ==
    { [id |-> i, path |-> p, line |-> l, login |-> Some("alice"),
       created_at |-> Some(1), in_reply_to_id |-> None]
        : p \in {"", "a.ts"}, l \in {None, Some(10)} }

RECURSIVE RecordLists(_)
\* the lists of n records; the i-th record has id i
RecordLists(n) ==
    IF n = 0 THEN { <<>> }
    ELSE { Append(l, r) : l \in RecordLists(n - 1), r \in ApiRecords(n) }

\* values of the x-ratelimit-remaining header: absent, "5", "50"
RemainingHeaders == { None, Some(<<"5">>), Some(<<"5","0">>) }

NoError == [kind |-> "Error", status |-> None, message |-> "", retryAfter |-> None]

Responses ==
    { [ok |-> TRUE, data |-> d, remaining |-> h, error |-> NoError]
        : d \in UNION { RecordLists(n) : n \in 0..MaxRecords }, h \in RemainingHeaders }
    \cup { [ok |-> FALSE, data |-> <<>>, remaining |-> None, error |-> e]
        : e \in ThrownValues }


(***************************************************************************)
(* github/client.ts: fetchPRCommentsWithRetry.                             *)
(***************************************************************************)
MSG_NOT_CONFIGURED == "GitHub token is not configured. Please set prComments.githubToken in settings."
MSG_AUTH_FAILED == "Authentication failed. Please check your GitHub token."
MSG_NOT_FOUND == "PR #<prNumber> not found in <owner>/<repo>. Check the PR number and repository."
MSG_EXHAUSTED == "Failed to fetch PR comments after multiple attempts"
MSG_OBJECT == "[object Object]"

Failure(errorText) ==
    [success |-> FALSE, comments |-> <<>>, error |-> errorText, rateLimitRemaining |-> None]

\* mutant: the path of a record is not looked at
HasPathAndLine_LineOnly(r) == r.line # None

\* the filter of lines 386-387: a record is kept when it has a path and a line
HasPathAndLine(r) == r.path # "" /\ r.line # None

\* the map of lines 388-401
ToPRComment(r) ==
    [id |-> r.id, path |-> r.path, line |-> r.line[1],
     user |-> IF r.login # None /\ r.login[1] # "" THEN r.login[1] ELSE "Unknown",
     createdAt |-> r.created_at, inReplyToId |-> r.in_reply_to_id, resolved |-> None]

\* lines 375-377 (a value that parses to NaN is kept as None)
RateLimitRemaining(header) == IF Truthy(header) THEN ParseInt(header[1]) ELSE None

\* lines 386-410: the result of a successful attempt
SuccessResult(resp) ==
    [success |-> TRUE,
     comments |-> LET kept == SelectSeq(resp.data, HasPathAndLine)
                  IN [i \in 1..Len(kept) |-> ToPRComment(kept[i])],
     error |-> None,
     rateLimitRemaining |-> RateLimitRemaining(resp.remaining)]

\* line 273: typeof error === 'object' && error !== null
isGitHubError(e) == e.kind \in {"Error", "object"}

\* line 412: the message lastError ends up with
\* (error instanceof Error ? error : new Error(String(error))).message
CapturedMessage(e) ==
    CASE e.kind = "Error" -> e.message
      [] e.kind = "object" -> MSG_OBJECT
      [] e.kind = "string" -> e.message

\* mutant: only the first failure is remembered
CaughtError_KeepFirst(previous, e) ==
    IF previous # None THEN previous ELSE Some(CapturedMessage(e))

\* line 412: lastError after the catch
CaughtError(previous, e) == Some(CapturedMessage(e))

\* mutant: a missing PR is no longer terminal
IsTerminalStatus_Only401(status) == status = Some(401)

\* lines 419 and 428: the statuses that end the invocation at once
IsTerminalStatus(status) == status = Some(401) \/ status = Some(404)

\* lines 414-458: what the catch block does with a failure on attempt a:
\* "auth" and "notfound" return, "sleep" waits for ms and goes on with the
\* loop, "next" goes on with the loop without waiting.
CatchDecision(e, a) ==
    IF isGitHubError(e) /\ IsTerminalStatus(e.status)
    THEN [do |-> IF e.status = Some(401) THEN "auth" ELSE "notfound", ms |-> 0]
    ELSE IF isGitHubError(e) /\ e.status \in {Some(403), Some(429)}
    THEN [do |-> "sleep", ms |-> calculateRetryDelay(a, e.retryAfter)]
    ELSE IF isGitHubError(e) /\ e.status # None /\ e.status[1] # 0 /\ e.status[1] >= 500
    THEN [do |-> "sleep", ms |-> calculateRetryDelay(a, None)]
    ELSE IF a < MAX_RETRIES - 1
    THEN [do |-> "sleep", ms |-> calculateRetryDelay(a, None)]
    ELSE [do |-> "next", ms |-> 0]

\* mutant: one attempt too many
LoopContinues_OffByOne(a) == a <= MAX_RETRIES

\* line 364: the loop condition
LoopContinues(a) == a < MAX_RETRIES

\* line 466: lastError?.message || 'Failed to fetch ...'
ExhaustedError(last) ==
    IF last # None /\ last[1] # "" THEN Some(last[1]) ELSE Some(MSG_EXHAUSTED)

\* The loop's increment and test after attempt a: the next listing call is
\* made, or the loop ends and lines 462-467 return.
NextIteration(a, last) ==
    /\ attempt' = a + 1
    /\ IF LoopContinues(a + 1)
       THEN /\ pc' = "await"
            /\ calls' = calls + 1
            /\ result' = result
       ELSE /\ pc' = "done"
            /\ calls' = calls
            /\ result' = Some(Failure(ExhaustedError(last)))

\* The call of fetchPRCommentsWithRetry up to its first await (lines 341-373):
\* the credential checks, then the first listing call.
Invoke(token, configToken) ==
    /\ pc = "idle"
    /\ LET auth == IF Truthy(token) THEN token[1] ELSE configToken
           tokenValidation == validateToken(auth)
       IN /\ authToken' = auth
          /\ IF auth = <<>>
             THEN /\ pc' = "done"
                  /\ result' = Some(Failure(Some(MSG_NOT_CONFIGURED)))
                  /\ calls' = calls
             ELSE IF ~tokenValidation.valid
             THEN /\ pc' = "done"
                  /\ result' = Some(Failure(tokenValidation.message))
                  /\ calls' = calls
             ELSE /\ pc' = "await"
                  /\ result' = result
                  /\ calls' = calls + 1
    /\ UNCHANGED <<attempt, lastError, response, delay, sleeps>>
    /\ UNCHANGED <<treeVars, viewVars, autoVars, repoVars, cmdVars, lastCall>>

\* The listing call settles: it resolves with a response or rejects.
Respond(r) ==
    /\ pc = "await"
    /\ response' = Some(r)
    /\ pc' = "resumed"
    /\ UNCHANGED <<authToken, attempt, lastError, result, delay, calls, sleeps>>
    /\ UNCHANGED <<treeVars, viewVars, autoVars, repoVars, cmdVars, lastCall>>

\* The continuation of the await of line 368 when the call resolved.
ResumeSuccess ==
    /\ pc = "resumed"
    /\ response[1].ok
    /\ result' = Some(SuccessResult(response[1]))
    /\ pc' = "done"
    /\ UNCHANGED <<authToken, attempt, lastError, response, delay, calls, sleeps>>
    /\ UNCHANGED <<treeVars, viewVars, autoVars, repoVars, cmdVars, lastCall>>

\* The catch block (lines 411-459) when the call rejected.
ResumeFailure ==
    /\ pc = "resumed"
    /\ ~response[1].ok
    /\ LET e == response[1].error
           decision == CatchDecision(e, attempt)
           last == CaughtError(lastError, e)
       IN /\ lastError' = last
          /\ CASE decision.do = "auth" ->
                    /\ pc' = "done"
                    /\ result' = Some(Failure(Some(MSG_AUTH_FAILED)))
                    /\ UNCHANGED <<attempt, delay, calls, sleeps>>
               [] decision.do = "notfound" ->
                    /\ pc' = "done"
                    /\ result' = Some(Failure(Some(MSG_NOT_FOUND)))
                    /\ UNCHANGED <<attempt, delay, calls, sleeps>>
               [] decision.do = "sleep" ->
                    /\ pc' = "sleep"
                    /\ delay' = Some(decision.ms)
                    /\ sleeps' = sleeps + 1
                    /\ UNCHANGED <<attempt, result, calls>>
               [] decision.do = "next" ->
                    /\ NextIteration(attempt, last)
                    /\ UNCHANGED <<delay, sleeps>>
    /\ UNCHANGED <<authToken, response>>
    /\ UNCHANGED <<treeVars, viewVars, autoVars, repoVars, cmdVars, lastCall>>

\* mutant: the promise of sleep() is never resolved
Wake_NeverFires ==
    /\ pc = "sleep"
    /\ UNCHANGED vars

\* The retry delay elapses: the continuation of the await of sleep() goes on
\* with the loop.
Wake ==
    /\ pc = "sleep"
    /\ NextIteration(attempt, lastError)
    /\ UNCHANGED <<authToken, lastError, response, delay, sleeps>>
    /\ UNCHANGED <<treeVars, viewVars, autoVars, repoVars, cmdVars, lastCall>>

(***************************************************************************)
(* views/commentTreeProvider.ts: CommentTreeProvider.                      *)
(* A JavaScript Map is a sequence of entries in insertion order.           *)
(***************************************************************************)
\* mutant: a reply to comment 1 is taken for a root
IsReply_SkipsFirstId(comment) ==
    comment.inReplyToId # None /\ comment.inReplyToId[1] > 1

\* line 142: if (comment.inReplyToId)
IsReply(comment) == comment.inReplyToId # None /\ comment.inReplyToId[1] # 0

\* Map.prototype.get on a map kept as a sequence of entries with a key field:
\* the index of the entry, 0 when there is none
IndexOfKey(map, key) ==
    IF \E i \in 1..Len(map) : map[i].key = key
    THEN CHOOSE i \in 1..Len(map) : map[i].key = key
    ELSE 0

\* Map.prototype.set: an existing key keeps its place
MapSet(map, key, value) ==
    IF IndexOfKey(map, key) # 0
    THEN [map EXCEPT ![IndexOfKey(map, key)] = [key |-> key, value |-> value]]
    ELSE Append(map, [key |-> key, value |-> value])

\* lines 147-155: the thread a root comment starts
NewThread(comment) ==
    [id |-> comment.id, path |-> comment.path, line |-> comment.line,
     rootComment |-> comment, replies |-> <<>>,
     resolved |-> (comment.resolved # None /\ comment.resolved[1]),
     participants |-> <<comment.user>>]

RECURSIVE FirstPass(_, _, _)
\* lines 141-157: threadMap and replyMap after the first loop
FirstPass(comments, threadMap, replyMap) ==
    IF comments = <<>> THEN [threadMap |-> threadMap, replyMap |-> replyMap]
    ELSE LET comment == Head(comments)
         IN IF IsReply(comment)
            THEN LET parent == comment.inReplyToId[1]
                     at == IndexOfKey(replyMap, parent)
                     replies == IF at # 0 THEN replyMap[at].value ELSE <<>>
                 IN FirstPass(Tail(comments), threadMap,
                              MapSet(replyMap, parent, Append(replies, comment)))
            ELSE FirstPass(Tail(comments),
                           MapSet(threadMap, comment.id, NewThread(comment)),
                           replyMap)

RECURSIVE InsertByKey(_, _, _)
\* insert index j into the index list order, behind every index whose key is
\* not greater (equal keys keep their order)
InsertByKey(order, j, keys) ==
    IF order = <<>> THEN <<j>>
    ELSE IF keys[Head(order)] <= keys[j]
    THEN <<Head(order)>> \o InsertByKey(Tail(order), j, keys)
    ELSE <<j>> \o order

RECURSIVE StableOrder(_, _)
StableOrder(keys, n) ==
    IF n = 0 THEN <<>> ELSE InsertByKey(StableOrder(keys, n - 1), n, keys)

\* Array.prototype.sort((a, b) => key(a) - key(b)), which is stable
SortByKeys(items, keys) ==
    LET order == StableOrder(keys, Len(items))
    IN [i \in 1..Len(items) |-> items[order[i]]]

\* line 164: new Date(c.createdAt || 0).getTime()
TimeKey(comment) == IF comment.createdAt # None THEN comment.createdAt[1] ELSE 0

\* mutant: the replies stay in the order of the input list
SortReplies_InputOrder(replies) == replies

\* lines 163-165
SortReplies(replies) ==
    SortByKeys(replies, [i \in 1..Len(replies) |-> TimeKey(replies[i])])

RECURSIVE AddParticipants_NoIncludesCheck(_, _)
\* mutant: every reply's author is pushed, listed already or not
AddParticipants_NoIncludesCheck(participants, replies) ==
    IF replies = <<>> THEN participants
    ELSE AddParticipants_NoIncludesCheck(Append(participants, Head(replies).user),
                                         Tail(replies))

RECURSIVE AddParticipants(_, _)
\* lines 167-171
AddParticipants(participants, replies) ==
    IF replies = <<>> THEN participants
    ELSE LET user == Head(replies).user
         IN AddParticipants(
                IF \E i \in 1..Len(participants) : participants[i] = user
                THEN participants ELSE Append(participants, user),
                Tail(replies))

\* mutant: replies without a thread of their own go to the first thread
ThreadFor_FallsBackToFirst(threadMap, rootId) ==
    IF IndexOfKey(threadMap, rootId) # 0 THEN IndexOfKey(threadMap, rootId)
    ELSE IF threadMap # <<>> THEN 1 ELSE 0

\* line 161: threadMap.get(rootId), as an index (0: undefined)
ThreadFor(threadMap, rootId) == IndexOfKey(threadMap, rootId)

RECURSIVE SecondPass(_, _)
\* lines 160-173: attach the collected replies to their threads
SecondPass(threadMap, replyMap) ==
    IF replyMap = <<>> THEN threadMap
    ELSE LET at == ThreadFor(threadMap, Head(replyMap).key)
             sorted == SortReplies(Head(replyMap).value)
         IN IF at # 0
            THEN SecondPass(
                     [threadMap EXCEPT
                         ![at].value.replies = sorted,
                         ![at].value.participants = AddParticipants(@, sorted)],
                     Tail(replyMap))
            ELSE SecondPass(threadMap, Tail(replyMap))

\* mutant: the threads are returned in the order of the thread map
buildThreads_InsertionOrder(comments) ==
    LET first == FirstPass(comments, <<>>, <<>>)
        attached == SecondPass(first.threadMap, first.replyMap)
    IN [i \in 1..Len(attached) |-> attached[i].value]

\* lines 136-177
buildThreads(comments) ==
    LET first == FirstPass(comments, <<>>, <<>>)
        attached == SecondPass(first.threadMap, first.replyMap)
        values == [i \in 1..Len(attached) |-> attached[i].value]
    IN SortByKeys(values, [i \in 1..Len(values) |-> values[i].line])

RECURSIVE CommentsInThreads(_)
\* lines 284-286: 1 + replies.length, summed over the threads of one file
CommentsInThreads(fileThreads) ==
    IF fileThreads = <<>> THEN 0
    ELSE 1 + Len(Head(fileThreads).replies) + CommentsInThreads(Tail(fileThreads))

RECURSIVE TotalCommentCountOf(_)
\* lines 281-289, over a threads map
TotalCommentCountOf(threadsMap) ==
    IF threadsMap = <<>> THEN 0
    ELSE CommentsInThreads(Head(threadsMap).value) + TotalCommentCountOf(Tail(threadsMap))

RECURSIVE ThreadCountOf(_)
\* lines 291-297, over a threads map
ThreadCountOf(threadsMap) ==
    IF threadsMap = <<>> THEN 0
    ELSE Len(Head(threadsMap).value) + ThreadCountOf(Tail(threadsMap))

getTotalCommentCount == TotalCommentCountOf(threads)

getThreadCount == ThreadCountOf(threads)

RECURSIVE GroupByPath(_, _)
\* commands/fetchComments.ts lines 96-101: the store built from a flat list
GroupByPath(comments, store) ==
    IF comments = <<>> THEN store
    ELSE LET comment == Head(comments)
             at == IndexOfKey(store, comment.path)
             sofar == IF at # 0 THEN store[at].value ELSE <<>>
         IN GroupByPath(Tail(comments),
                        MapSet(store, comment.path, Append(sofar, comment)))

\* mutant: the entries of earlier calls are not cleared
setComments_NoClear(map) ==
    /\ commentsByFile' = map
    /\ threads' = [i \in 1..Len(map) |->
                      [key |-> map[i].key, value |-> buildThreads(map[i].value)]]
                  \o SelectSeq(threads, LAMBDA old : IndexOfKey(map, old.key) = 0)
    /\ reviewers' = reviewers \cup
                    UNION { { map[i].value[j].user : j \in 1..Len(map[i].value) }
                            : i \in 1..Len(map) }
    /\ refreshes' = refreshes + 1
    /\ lastCall' = "setComments"
    /\ UNCHANGED <<fetchVars, repoVars, filterOptions, autoVars>>

\* lines 119-134: threads and reviewers are rebuilt from the map handed in,
\* and refresh() fires the change event
setComments(map) ==
    /\ commentsByFile' = map
    /\ threads' = [i \in 1..Len(map) |->
                      [key |-> map[i].key, value |-> buildThreads(map[i].value)]]
    /\ reviewers' = UNION { { map[i].value[j].user : j \in 1..Len(map[i].value) }
                            : i \in 1..Len(map) }
    /\ refreshes' = refreshes + 1
    /\ lastCall' = "setComments"
    /\ UNCHANGED <<fetchVars, repoVars, filterOptions, autoVars>>

(***************************************************************************)
(* views/commentTreeProvider.ts: the filter and the items shown.  A        *)
(* FilterOptions object has the fields reviewer, resolved and file, None   *)
(* when the field is absent; file is kept as a sequence of characters.     *)
(***************************************************************************)
\* line 112: filterOptions = {}
NoFilter == [reviewer |-> None, resolved |-> None, file |-> None]

\* the characters of the file paths of the inputs
Characters(path) ==
    CASE path = "a.ts" -> <<"a", ".", "t", "s">>
      [] path = "b.ts" -> <<"b", ".", "t", "s">>

\* String.prototype.includes
Includes(text, part) ==
    \E i \in 0..(Len(text) - Len(part)) : SubSeq(text, i + 1, i + Len(part)) = part

\* mutant: the resolved field of the options is not looked at
ThreadPasses_IgnoresResolved(options, thread) ==
    (options.reviewer # None /\ options.reviewer[1] # "")
        => \E n \in 1..Len(thread.participants) : thread.participants[n] = options.reviewer[1]

\* lines 260-273: the callback of threads.filter
ThreadPasses(options, thread) ==
    /\ (options.reviewer # None /\ options.reviewer[1] # "")
          => \E n \in 1..Len(thread.participants) :
                thread.participants[n] = options.reviewer[1]
    /\ options.resolved # None => thread.resolved = options.resolved[1]

\* lines 259-274, for given options
FilterThreadsBy(options, fileThreads) ==
    SelectSeq(fileThreads, LAMBDA thread : ThreadPasses(options, thread))

filterThreads(fileThreads) == FilterThreadsBy(filterOptions, fileThreads)

\* localeCompare on the file paths of the inputs, as a sort key
PathRank(path) == IF path = "a.ts" THEN 1 ELSE 2

RECURSIVE FileItemsOf_NoFileCheck(_, _)
\* mutant: the file field of the options is not looked at
FileItemsOf_NoFileCheck(options, threadsMap) ==
    IF threadsMap = <<>> THEN <<>>
    ELSE LET filteredThreads == FilterThreadsBy(options, Head(threadsMap).value)
             rest == FileItemsOf_NoFileCheck(options, Tail(threadsMap))
         IN IF filteredThreads = <<>> THEN rest
            ELSE << [filePath |-> Head(threadsMap).key, threads |-> filteredThreads,
                     commentCount |-> CommentsInThreads(filteredThreads)] >> \o rest

RECURSIVE FileItemsOf(_, _)
\* lines 219-235: the loop over this.threads
FileItemsOf(options, threadsMap) ==
    IF threadsMap = <<>> THEN <<>>
    ELSE LET filePath == Head(threadsMap).key
             filteredThreads == FilterThreadsBy(options, Head(threadsMap).value)
             rest == FileItemsOf(options, Tail(threadsMap))
         IN IF filteredThreads = <<>> THEN rest
            ELSE IF Truthy(options.file)
                    /\ ~Includes(Characters(filePath), options.file[1]) THEN rest
            ELSE << [filePath |-> filePath, threads |-> filteredThreads,
                     commentCount |-> CommentsInThreads(filteredThreads)] >> \o rest

\* lines 216-238, for given options
FileItemsBy(options, threadsMap) ==
    LET items == FileItemsOf(options, threadsMap)
    IN SortByKeys(items, [i \in 1..Len(items) |-> PathRank(items[i].filePath)])

getFileItems == FileItemsBy(filterOptions, threads)

\* lines 240-243: the threads shown below a file item
getThreadItems(fileItem) == filterThreads(fileItem.threads)

\* lines 179-182
setFilter(options) ==
    /\ filterOptions' = options
    /\ refreshes' = refreshes + 1
    /\ lastCall' = "setFilter"
    /\ UNCHANGED <<fetchVars, repoVars, cmdVars, treeVars, autoVars>>

\* mutant: the file predicate stays
clearFilter_KeepsFile ==
    /\ filterOptions' = [NoFilter EXCEPT !.file = filterOptions.file]
    /\ refreshes' = refreshes + 1
    /\ lastCall' = "clearFilter"
    /\ UNCHANGED <<fetchVars, repoVars, cmdVars, treeVars, autoVars>>

\* lines 184-187
clearFilter ==
    /\ filterOptions' = NoFilter
    /\ refreshes' = refreshes + 1
    /\ lastCall' = "clearFilter"
    /\ UNCHANGED <<fetchVars, repoVars, cmdVars, treeVars, autoVars>>

(***************************************************************************)
(* Inputs of the tree provider: the flat comment list of one fetch.  The   *)
(* i-th comment of the list has id i and lies in a.ts; it is a root or a   *)
(* reply to comment 1, to comment 2 or to comment 9, which is a root in    *)
(* b.ts when that file has comments and exists nowhere otherwise.          *)
(***************************************************************************)
Users == {"alice", "bob"}
Lines == {10, 20}
Times == {None, Some(1), Some(2)}
ParentIds == {1, 2, 9}

\* the root comments: by alice or bob on either line, resolved or not, and one
\* by carol, who writes no reply
RootComments ==
    { [id |-> 0, path |-> "a.ts", line |-> l, user |-> u, createdAt |-> None,
       inReplyToId |-> None, resolved |-> r]
        : l \in Lines, u \in Users, r \in {None, Some(TRUE)} }
    \cup
    { [id |-> 0, path |-> "a.ts", line |-> 10, user |-> "carol", createdAt |-> None,
       inReplyToId |-> None, resolved |-> None] }

ReplyComments ==
    { [id |-> 0, path |-> "a.ts", line |-> 10, user |-> u, createdAt |-> t,
       inReplyToId |-> Some(parent), resolved |-> None]
        : u \in Users, t \in Times, parent \in ParentIds }

\* the lists of n comments, before their ids are set
CommentLists(n) == [1..n -> RootComments \cup ReplyComments]

\* the i-th comment gets id i
Numbered(list) == [i \in 1..Len(list) |-> [list[i] EXCEPT !.id = i]]

\* the comments of the second file: none, or the root comment 9
OtherFileComments ==
    { <<>>,
      << [id |-> 9, path |-> "b.ts", line |-> 10, user |-> "carol", createdAt |-> None,
          inReplyToId |-> None, resolved |-> None] >> }

\* the maps handed to setComments on a provider that already shows comments:
\* the empty map of the clear command, and a reload with one root comment
ReloadMaps ==
    { <<>>,
      GroupByPath(<< [id |-> 1, path |-> "a.ts", line |-> 10, user |-> "alice",
                      createdAt |-> None, inReplyToId |-> None, resolved |-> None] >>,
                  <<>>) }

\* extension.ts line 49: the first setComments after activation, with the
\* store of a fetch
FirstLoad ==
    /\ refreshes = 0
    /\ commentsByFile = <<>>
    /\ threads = <<>>
    /\ \E n \in 0..MaxComments : \E list \in CommentLists(n), other \in OtherFileComments :
            setComments(GroupByPath(Numbered(list) \o other, <<>>))
    /\ UNCHANGED cmdVars

\* extension.ts lines 49 and 63: setComments on a provider in any state
Reload(map) ==
    /\ threads # <<>>
    /\ refreshes < MaxRefreshes
    /\ setComments(map)
    /\ UNCHANGED cmdVars

(***************************************************************************)
(* Inputs of the view: short comment lists with an open thread by alice,   *)
(* a resolved thread by bob and a reply by bob to comment 1, with or       *)
(* without the thread of carol in b.ts, and the filter options.            *)
(***************************************************************************)
ViewComments ==
    { [id |-> 0, path |-> "a.ts", line |-> 10, user |-> "alice", createdAt |-> None,
       inReplyToId |-> None, resolved |-> None],
      [id |-> 0, path |-> "a.ts", line |-> 20, user |-> "bob", createdAt |-> None,
       inReplyToId |-> None, resolved |-> Some(TRUE)],
      [id |-> 0, path |-> "a.ts", line |-> 10, user |-> "bob", createdAt |-> None,
       inReplyToId |-> Some(1), resolved |-> None] }

ViewMaps ==
    UNION { { GroupByPath(Numbered(list) \o other, <<>>)
                : list \in [1..n -> ViewComments], other \in OtherFileComments }
            : n \in 0..MaxShown }

\* reviewer: absent, the empty string, or a handle; resolved: absent or a
\* boolean; file: absent, "b." or "ts"
FilterChoices ==
    [reviewer : {None, Some(""), Some("alice"), Some("bob")},
     resolved : {None, Some(TRUE), Some(FALSE)},
     file : {None, Some(<<"b", ".">>), Some(<<"t", "s">>)}]

\* extension.ts line 49: setComments with the store of a later fetch
ShowComments(map) ==
    /\ refreshes < MaxRefreshes
    /\ setComments(map)
    /\ UNCHANGED cmdVars

\* commands/commentActions.ts lines 191 and 218, and the provider's own
\* interface
Filter(options) ==
    /\ refreshes < MaxRefreshes
    /\ setFilter(options)

\* commands/commentActions.ts lines 194, 221 and 232
ClearFilters ==
    /\ refreshes < MaxRefreshes
    /\ clearFilter

(***************************************************************************)
(* utils/autoRefresh.ts.  The module keeps refreshTimer, isRefreshing and  *)
(* callbacks; a callbacks object is modelled by which of its optional      *)
(* handlers it has.  The timer callback runs performRefresh up to the      *)
(* await of onRefresh; Settle is the rest of performRefresh, run when the  *)
(* promise of onRefresh is resolved or rejected.                           *)
(***************************************************************************)
\* lines 53-55
isAutoRefreshActive == refreshTimer # None

\* lines 60-62
isRefreshInProgress == isRefreshing

\* lines 22-37: the timer startAutoRefresh leaves behind when the setting
\* read from the configuration is minutes
TimerAfterStart(minutes) ==
    IF minutes <= 0 THEN refreshTimer ELSE Some(minutes * 60 * 1000)

\* lines 19-38
startAutoRefresh(refreshCallbacks) ==
    /\ callbacks' = Some(refreshCallbacks)
    /\ refreshTimer' = TimerAfterStart(refreshInterval)
    /\ lastCall' = "startAutoRefresh"
    /\ UNCHANGED <<isRefreshing, refreshInterval, inFlight, started>>
    /\ UNCHANGED <<fetchVars, repoVars, cmdVars, treeVars, viewVars>>

\* mutant: the timer is not cleared
stopAutoRefresh_KeepsTimer ==
    /\ lastCall' = "stopAutoRefresh"
    /\ UNCHANGED <<refreshTimer, isRefreshing, callbacks, refreshInterval, inFlight,
                   started>>
    /\ UNCHANGED <<fetchVars, repoVars, cmdVars, treeVars, viewVars>>

\* lines 43-49
stopAutoRefresh ==
    /\ refreshTimer' = None
    /\ lastCall' = "stopAutoRefresh"
    /\ UNCHANGED <<isRefreshing, callbacks, refreshInterval, inFlight, started>>
    /\ UNCHANGED <<fetchVars, repoVars, cmdVars, treeVars, viewVars>>

\* extension.ts lines 100-118 with lines 98-103: the setting
\* prComments.refreshInterval is changed to minutes and the configuration
\* listener calls updateAutoRefreshInterval
updateAutoRefreshInterval(minutes) ==
    /\ refreshInterval' = minutes
    /\ refreshTimer' = IF callbacks # None THEN TimerAfterStart(minutes) ELSE refreshTimer
    /\ lastCall' = "updateAutoRefreshInterval"
    /\ UNCHANGED <<isRefreshing, callbacks, inFlight, started>>
    /\ UNCHANGED <<fetchVars, repoVars, cmdVars, treeVars, viewVars>>

\* lines 147-150
disposeAutoRefresh ==
    /\ refreshTimer' = None
    /\ callbacks' = None
    /\ lastCall' = "disposeAutoRefresh"
    /\ UNCHANGED <<isRefreshing, refreshInterval, inFlight, started>>
    /\ UNCHANGED <<fetchVars, repoVars, cmdVars, treeVars, viewVars>>

\* mutant: a refresh in progress does not hold back the next one
performRefresh_NoInProgressCheck ==
    /\ IF callbacks = None
       THEN /\ lastCall' = "performRefresh: no callbacks"
            /\ UNCHANGED <<isRefreshing, inFlight, started>>
       ELSE /\ isRefreshing' = TRUE
            /\ inFlight' = inFlight + 1
            /\ started' = started + 1
            /\ lastCall' = "onRefresh"
    /\ UNCHANGED <<refreshTimer, callbacks, refreshInterval>>
    /\ UNCHANGED <<fetchVars, repoVars, cmdVars, treeVars, viewVars>>

\* lines 68-83: performRefresh up to the await of callbacks.onRefresh()
performRefresh ==
    /\ IF isRefreshing
       THEN /\ lastCall' = "performRefresh: skipped"
            /\ UNCHANGED <<isRefreshing, inFlight, started>>
       ELSE IF callbacks = None
       THEN /\ lastCall' = "performRefresh: no callbacks"
            /\ UNCHANGED <<isRefreshing, inFlight, started>>
       ELSE /\ isRefreshing' = TRUE
            /\ inFlight' = inFlight + 1
            /\ started' = started + 1
            /\ lastCall' = "onRefresh"
    /\ UNCHANGED <<refreshTimer, callbacks, refreshInterval>>
    /\ UNCHANGED <<fetchVars, repoVars, cmdVars, treeVars, viewVars>>

\* lines 84-92: what runs behind the await.  With callbacks undefined the
\* optional call throws a TypeError, in the try block and again in the catch
\* block, and performRefresh rejects; finally resets the flag in every case.
SettleOutcome(resolved) ==
    IF callbacks = None THEN "TypeError"
    ELSE IF resolved
    THEN (IF callbacks[1].onRefreshComplete THEN "onRefreshComplete" ELSE "completed")
    ELSE (IF callbacks[1].onRefreshError THEN "onRefreshError" ELSE "failed")

\* mutant: the flag is reset only when onRefresh succeeds
Settle_ResetOnSuccessOnly(resolved) ==
    /\ inFlight > 0
    /\ inFlight' = inFlight - 1
    /\ isRefreshing' = IF resolved THEN FALSE ELSE isRefreshing
    /\ lastCall' = SettleOutcome(resolved)
    /\ UNCHANGED <<refreshTimer, callbacks, refreshInterval, started>>
    /\ UNCHANGED <<fetchVars, repoVars, cmdVars, treeVars, viewVars>>

\* lines 82-92: the promise of onRefresh is resolved or rejected
Settle(resolved) ==
    /\ inFlight > 0
    /\ inFlight' = inFlight - 1
    /\ isRefreshing' = FALSE
    /\ lastCall' = SettleOutcome(resolved)
    /\ UNCHANGED <<refreshTimer, callbacks, refreshInterval, started>>
    /\ UNCHANGED <<fetchVars, repoVars, cmdVars, treeVars, viewVars>>

\* lines 35-37: the interval timer fires
Tick ==
    /\ refreshTimer # None
    /\ started < MaxCycles
    /\ performRefresh

\* the callbacks objects handed to startAutoRefresh: onRefresh alone
\* (extension.ts lines 149 and 207), or with both optional handlers
CallbackObjects ==
    { [onRefreshComplete |-> FALSE, onRefreshError |-> FALSE],
      [onRefreshComplete |-> TRUE, onRefreshError |-> TRUE] }

\* values of the setting prComments.refreshInterval, in minutes
IntervalSettings == {0 - 1, 0, 1, 5}

(***************************************************************************)
(* git/repository.ts: parseGitRemoteUrl.  Strings are sequences of         *)
(* characters.  The first pattern is                                       *)
(*   /github[^/]*[:/]([^/]+)\/([^/]+?)(\.git)?$/i                          *)
(* and the second is /^([^/]+)\/([^/]+)$/.                                  *)
(***************************************************************************)
\* the letters of the inputs under the flag i
Lower(c) ==
    CASE c = "G" -> "g" [] c = "H" -> "h" [] c = "I" -> "i" [] c = "T" -> "t"
      [] c = "U" -> "u" [] c = "B" -> "b" [] c = "P" -> "p" [] c = "R" -> "r"
      [] c = "L" -> "l" [] OTHER -> c

LowerAll(text) == [n \in 1..Len(text) |-> Lower(text[n])]

GithubWord == <<"g", "i", "t", "h", "u", "b">>
DotGit == <<".", "g", "i", "t">>

HasNoSlash(text) == \A n \in 1..Len(text) : text[n] # "/"

\* line 21: repo.replace(/\.git$/, '')
StripDotGit(text) ==
    IF Len(text) >= 4 /\ SubSeq(text, Len(text) - 3, Len(text)) = DotGit
    THEN SubSeq(text, 1, Len(text) - 4)
    ELSE text

\* ([^/]+?)(\.git)?$ on the rest of the string: the shortest group that lets
\* the pattern end
LazyRepo(rest) ==
    IF Len(rest) > 4 /\ LowerAll(SubSeq(rest, Len(rest) - 3, Len(rest))) = DotGit
    THEN SubSeq(rest, 1, Len(rest) - 4)
    ELSE rest

\* ([^/]+)\/([^/]+?)(\.git)?$ behind the separator at place j: the owner runs
\* to the next slash, the rest of the string has no slash
TailAfter(url, j) ==
    LET slashes == { k \in (j + 1)..Len(url) : url[k] = "/" }
    IN IF slashes = {} THEN None
       ELSE LET k == CHOOSE x \in slashes : \A y \in slashes : x <= y
            IN IF k > j + 1 /\ k < Len(url) /\ HasNoSlash(SubSeq(url, k + 1, Len(url)))
               THEN Some([owner |-> SubSeq(url, j + 1, k - 1),
                          repo |-> LazyRepo(SubSeq(url, k + 1, Len(url)))])
               ELSE None

\* [^/]*[:/] behind the word github at place i: the places of the separator
SeparatorsAfter(url, i) ==
    { j \in (i + 6)..Len(url) :
        url[j] \in {":", "/"} /\ HasNoSlash(SubSeq(url, i + 6, j - 1)) }

\* the match that starts at place i; [^/]* is greedy, so the last separator
\* that lets the pattern match is taken
MatchAt(url, i) ==
    LET good == { j \in SeparatorsAfter(url, i) : TailAfter(url, j) # None }
    IN IF good = {} THEN None
       ELSE TailAfter(url, CHOOSE x \in good : \A y \in good : x >= y)

\* the places where github stands, in any case
GithubStarts(url) ==
    { i \in 1..(Len(url) - 5) : LowerAll(SubSeq(url, i, i + 5)) = GithubWord }

\* line 12: the leftmost match of the first pattern
MatchHostedPattern(url) ==
    LET starts == { i \in GithubStarts(url) : MatchAt(url, i) # None }
    IN IF starts = {} THEN None
       ELSE MatchAt(url, CHOOSE x \in starts : \A y \in starts : x <= y)

\* line 13: /^([^/]+)\/([^/]+)$/
MatchBarePattern(url) ==
    LET slashes == { k \in 1..Len(url) : url[k] = "/" }
    IN IF Cardinality(slashes) = 1
       THEN LET k == CHOOSE x \in slashes : TRUE
            IN IF k > 1 /\ k < Len(url)
               THEN Some([owner |-> SubSeq(url, 1, k - 1),
                          repo |-> SubSeq(url, k + 1, Len(url))])
               ELSE None
       ELSE None

\* lines 6-27
parseGitRemoteUrl(remoteUrl) ==
    LET match == IF MatchHostedPattern(remoteUrl) # None
                 THEN MatchHostedPattern(remoteUrl)
                 ELSE MatchBarePattern(remoteUrl)
    IN IF match = None THEN None
       ELSE Some([owner |-> match[1].owner, repo |-> StripDotGit(match[1].repo)])

\* the parts remote URLs are made of
GitHubHosts == { <<"g", "i", "t", "h", "u", "b", ".", "c", "o", "m">>, <<"G", "i", "t", "H", "u", "b", ".", "c", "o", "m">>, <<"g", "i", "t", "h", "u", "b", ".", "e", "n", "t", "e", "r", "p", "r", "i", "s", "e", ".", "c", "o", "m">> }
OtherHosts == { <<"g", "i", "t", "l", "a", "b", ".", "c", "o", "m">>, <<"b", "i", "t", "b", "u", "c", "k", "e", "t", ".", "o", "r", "g">> }
Owners == { <<"o", "w", "n", "e", "r">>, <<"m", "y", "-", "o", "r", "g">>, <<"m", "y", "_", "o", "r", "g">> }
Repos == { <<"r", "e", "p", "o">>, <<"m", "y", "-", "r", "e", "p", "o">> }
Suffixes == { <<>>, DotGit }

\* SSH-style and HTTPS-style URLs of every host, and bare owner/repo
ShapedRemotes ==
    { [shape |-> "ssh", host |-> h, owner |-> o, repo |-> r,
       url |-> <<"g", "i", "t", "@">> \o h \o <<":">> \o o \o <<"/">> \o r \o x]
        : h \in GitHubHosts \cup OtherHosts, o \in Owners, r \in Repos, x \in Suffixes }
    \cup
    { [shape |-> "https", host |-> h, owner |-> o, repo |-> r,
       url |-> <<"h", "t", "t", "p", "s", ":", "/", "/">> \o h \o <<"/">> \o o \o <<"/">> \o r \o x]
        : h \in GitHubHosts \cup OtherHosts, o \in Owners, r \in Repos, x \in Suffixes }
    \cup
    { [shape |-> "bare", host |-> <<>>, owner |-> o, repo |-> r,
       url |-> o \o <<"/">> \o r \o x]
        : o \in Owners, r \in Repos, x \in Suffixes }

\* inputs of no supported shape: the empty string, a word, a URL with one
\* path segment, a URL with three, a path with a leading slash
OtherRemotes ==
    { [shape |-> "other", host |-> <<>>, owner |-> <<>>, repo |-> <<>>, url |-> u]
        : u \in { <<>>, <<"n", "o", "t", "-", "a", "-", "u", "r", "l">>, <<"h", "t", "t", "p", "s", ":", "/", "/", "g", "i", "t", "h", "u", "b", ".", "c", "o", "m", "/", "o", "w", "n", "e", "r">>, <<"h", "t", "t", "p", "s", ":", "/", "/", "g", "i", "t", "h", "u", "b", ".", "c", "o", "m", "/", "a", "/", "b", "/", "c">>, <<"/", "r", "e", "p", "o">> } }

(***************************************************************************)
(* git/repository.ts: extractPRNumberFromBranch.  The patterns are         *)
(*   /^pr[_-]?(\d+)/i   /^pull[_-]?(\d+)/i   /^(\d+)[_-]/                  *)
(*   /[_-]pr[_-]?(\d+)/i   /[_-]pull[_-]?(\d+)/i                           *)
(* A capture is the sequence of digits of group 1, <<>> when the pattern   *)
(* does not match.                                                         *)
(***************************************************************************)
Separators == {"-", "_"}
WordPr == <<"p", "r">>
WordPull == <<"p", "u", "l", "l">>

\* word[_-]?(\d+) with the word at place i of the text
DigitsAfterWord(text, i, word) ==
    LET p == i + Len(word)
    IN IF p - 1 > Len(text) \/ LowerAll(SubSeq(text, i, p - 1)) # word THEN <<>>
       ELSE LET q == IF p <= Len(text) /\ text[p] \in Separators THEN p + 1 ELSE p
            IN DigitPrefix(SubSeq(text, q, Len(text)))

\* mutant: digits at the start match without a separator behind them
DigitsAtStart_NoSeparator(text) == DigitPrefix(text)

\* line 35: /^(\d+)[_-]/
DigitsAtStart(text) ==
    LET d == DigitPrefix(text)
    IN IF d # <<>> /\ Len(d) < Len(text) /\ text[Len(d) + 1] \in Separators
       THEN d ELSE <<>>

\* lines 36-37: /[_-]word[_-]?(\d+)/i, the leftmost match
DigitsAfterEmbedded(text, word) ==
    LET places == { i \in 1..Len(text) :
                      text[i] \in Separators /\ DigitsAfterWord(text, i + 1, word) # <<>> }
    IN IF places = {} THEN <<>>
       ELSE DigitsAfterWord(text, 1 + (CHOOSE x \in places : \A y \in places : x <= y), word)

\* lines 40-45: the capture of the first pattern that matches
FirstCapture(text) ==
    IF DigitsAfterWord(text, 1, WordPr) # <<>> THEN DigitsAfterWord(text, 1, WordPr)
    ELSE IF DigitsAfterWord(text, 1, WordPull) # <<>> THEN DigitsAfterWord(text, 1, WordPull)
    ELSE IF DigitsAtStart(text) # <<>> THEN DigitsAtStart(text)
    ELSE IF DigitsAfterEmbedded(text, WordPr) # <<>> THEN DigitsAfterEmbedded(text, WordPr)
    ELSE DigitsAfterEmbedded(text, WordPull)

\* lines 29-48
extractPRNumberFromBranch(branchName) ==
    IF FirstCapture(branchName) = <<>> THEN None ELSE ParseInt(FirstCapture(branchName))

\* branch names: a beginning, pr or pull or neither, a separator or none,
\* digits or none, and an ending; and two names without any of these
BranchNames ==
    { a \o w \o x \o d \o z :
        a \in { <<>>, <<"f", "e", "a", "t", "u", "r", "e", "-">>, <<"f", "i", "x", "_">>, <<"f", "e", "a", "t", "u", "r", "e", "/">>, <<"1", "2", "-">>, <<"n", "o", "d", "e", "-">> },
        w \in { <<>>, <<"p", "r">>, <<"P", "R">>, <<"p", "u", "l", "l">> },
        x \in { <<>>, <<"-">>, <<"_">> },
        d \in { <<>>, <<"2", "0">>, <<"1", "2", "3">> },
        z \in { <<>>, <<"-", "a", "l", "s", "o", "-", "4", "5", "6">>, <<"-", "u", "p", "g", "r", "a", "d", "e">>, <<"_", "p", "u", "l", "l", "9">>,
                 <<"-", "p", "r", "-", "7">> } }
    \cup { <<"m", "a", "i", "n">>, <<"d", "e", "v", "e", "l", "o", "p">> }

\* getRepositoryInfo line 122, and the function called on its own
ExtractPRNumber(branchName) ==
    /\ branch = None
    /\ remote = None
    /\ branch' = Some(branchName)
    /\ prNumber' = extractPRNumberFromBranch(branchName)
    /\ UNCHANGED <<remote, parsedRemote>>
    /\ UNCHANGED <<fetchVars, treeVars, viewVars, autoVars, cmdVars, lastCall>>

\* getRepositoryInfo line 112, and the function called on its own
ParseRemote(input) ==
    /\ remote = None
    /\ branch = None
    /\ remote' = Some(input)
    /\ parsedRemote' = parseGitRemoteUrl(input.url)
    /\ UNCHANGED <<branch, prNumber>>
    /\ UNCHANGED <<fetchVars, treeVars, viewVars, autoVars, cmdVars, lastCall>>

(***************************************************************************)
(* commands/fetchComments.ts: fetchPRComments, with the handlers of        *)
(* extension.ts that call it and the current repository info of            *)
(* commands/commentActions.ts.  An invocation stands at "idle" (not yet     *)
(* called), at one of its awaits ("tokenPrompt", "selectFolder",           *)
(* "repoInfo", "fetching"), at "returned" (its promise is settled, the       *)
(* handler has not yet gone on) or at "finished".                          *)
(***************************************************************************)
Invocations == 1..MaxInvocations

NotCalled ==
    [pc |-> "idle", kind |-> "none", repoInfo |-> None, result |-> None, returned |-> None]

\* the handlers that call fetchPRComments: the command pr-comments.fetch
\* (extension.ts lines 45-53), the auto-fetch of activation (lines 198-203)
\* and the onRefresh callback of auto-refresh (lines 207-214)
DirectKinds == {"command", "autoFetch"}

\* what getRepositoryInfo resolves with: null, or owner, repo and a PR
\* number that is null, 0 or positive
RepositoryInfos ==
    {None} \cup { Some([owner |-> "o", repo |-> "r", prNumber |-> n])
                    : n \in {None, Some(0), Some(7)} }

\* the comment lists of the successful results: none, one comment of alice
\* in a.ts, one comment of carol in b.ts
CommandComments ==
    { <<>>,
      << [id |-> 1, path |-> "a.ts", line |-> 10, user |-> "alice", createdAt |-> None,
          inReplyToId |-> None, resolved |-> None] >>,
      << [id |-> 9, path |-> "b.ts", line |-> 10, user |-> "carol", createdAt |-> None,
          inReplyToId |-> None, resolved |-> None] >> }

\* what fetchPRCommentsWithRetry resolves with
FetchResults ==
    { [success |-> FALSE, comments |-> <<>>] }
    \cup { [success |-> TRUE, comments |-> c] : c \in CommandComments }

\* commentActions.ts lines 14-16
getCurrentRepoInfo == currentRepoInfo

\* commentActions.ts lines 10-12
setCurrentRepoInfo(info) == currentRepoInfo' = info

\* fetchComments.ts lines 16-18
clearCommentsStorage == commentsStorage' = <<>>

\* the invocation i returns value
Returns(i, value) ==
    [invocation EXCEPT ![i].pc = "returned", ![i].returned = Some(value)]

\* mutant: the store is cleared before the result is looked at
StoreAfter_ClearsOnFailure(fetched, store) ==
    IF ~fetched.success THEN <<>> ELSE GroupByPath(fetched.comments, <<>>)

\* mutant: the store is not cleared before the comments are added
StoreAfter_NoClear(fetched, store) ==
    IF ~fetched.success THEN store ELSE GroupByPath(fetched.comments, store)

\* fetchComments.ts lines 86-101: the store behind the await of
\* fetchPRCommentsWithRetry
StoreAfter(fetched, store) ==
    IF ~fetched.success THEN store ELSE GroupByPath(fetched.comments, <<>>)

\* fetchComments.ts lines 20-54: fetchPRComments up to its first await, or
\* to its return when no workspace folder is open
fetchPRComments(i, kind, hasValidToken, folders) ==
    /\ invocation[i].pc = "idle"
    /\ \A j \in 1..(i - 1) : invocation[j].pc # "idle"
    /\ invocation' =
          IF ~hasValidToken
          THEN [invocation EXCEPT ![i].kind = kind, ![i].pc = "tokenPrompt"]
          ELSE IF folders = 0
          THEN [Returns(i, FALSE) EXCEPT ![i].kind = kind]
          ELSE IF folders = 1
          THEN [invocation EXCEPT ![i].kind = kind, ![i].pc = "repoInfo"]
          ELSE [invocation EXCEPT ![i].kind = kind, ![i].pc = "selectFolder"]
    /\ UNCHANGED <<commentsStorage, currentRepoInfo>>
    /\ UNCHANGED <<fetchVars, repoVars, treeVars, viewVars, autoVars, lastCall>>

\* lines 28-37: the error message about the token is closed
TokenPromptClosed(i) ==
    /\ invocation[i].pc = "tokenPrompt"
    /\ invocation' = Returns(i, FALSE)
    /\ UNCHANGED <<commentsStorage, currentRepoInfo>>
    /\ UNCHANGED <<fetchVars, repoVars, treeVars, viewVars, autoVars, lastCall>>

\* lines 50-53: selectWorkspaceFolder resolves, with a folder or without
FolderSelected(i, picked) ==
    /\ invocation[i].pc = "selectFolder"
    /\ invocation' = IF picked THEN [invocation EXCEPT ![i].pc = "repoInfo"]
                     ELSE Returns(i, FALSE)
    /\ UNCHANGED <<commentsStorage, currentRepoInfo>>
    /\ UNCHANGED <<fetchVars, repoVars, treeVars, viewVars, autoVars, lastCall>>

\* lines 57-84: getRepositoryInfo resolves; with a PR number that is not
\* falsy the call of fetchPRCommentsWithRetry is made
RepositoryInfoResolved(i, info) ==
    /\ invocation[i].pc = "repoInfo"
    /\ invocation' =
          IF info = None THEN Returns(i, FALSE)
          ELSE IF info[1].prNumber \in {None, Some(0)}
          THEN [Returns(i, FALSE) EXCEPT ![i].repoInfo = info]
          ELSE [invocation EXCEPT ![i].repoInfo = info, ![i].pc = "fetching"]
    /\ UNCHANGED <<commentsStorage, currentRepoInfo>>
    /\ UNCHANGED <<fetchVars, repoVars, treeVars, viewVars, autoVars, lastCall>>

\* lines 84-123: fetchPRCommentsWithRetry resolves; the rest of the progress
\* callback runs without another await
FetchSettled(i, fetched) ==
    /\ invocation[i].pc = "fetching"
    /\ commentsStorage' = StoreAfter(fetched, commentsStorage)
    /\ invocation' = [Returns(i, fetched.success) EXCEPT ![i].result = Some(fetched)]
    /\ UNCHANGED currentRepoInfo
    /\ UNCHANGED <<fetchVars, repoVars, treeVars, viewVars, autoVars, lastCall>>

\* extension.ts lines 46-52, 199-202 and 210-211: the handler goes on behind
\* its await of fetchPRComments; the command hands the store to the tree
\* only when the fetch returned true
HandlerResumes(i) ==
    /\ invocation[i].pc = "returned"
    /\ invocation' = [invocation EXCEPT ![i].pc = "finished"]
    /\ UNCHANGED <<commentsStorage, currentRepoInfo>>
    /\ IF invocation[i].kind = "command" /\ invocation[i].returned # Some(TRUE)
       THEN UNCHANGED <<fetchVars, repoVars, treeVars, viewVars, autoVars, lastCall>>
       ELSE setComments(commentsStorage)

\* extension.ts lines 207-214: the onRefresh callback of auto-refresh
onRefresh ==
    IF getCurrentRepoInfo = None
    THEN /\ lastCall' = "onRefresh: no PR loaded"
         /\ UNCHANGED cmdVars
         /\ UNCHANGED <<fetchVars, repoVars, treeVars, viewVars, autoVars>>
    ELSE \E i \in Invocations, hasValidToken \in BOOLEAN, folders \in 0..2 :
            fetchPRComments(i, "refresh", hasValidToken, folders)

\* commentActions.ts lines 21-25: the reply command looks for a loaded PR
replyToCommentCommand ==
    /\ lastCall' = IF currentRepoInfo = None THEN "No PR loaded" ELSE "replyToComment"
    /\ UNCHANGED cmdVars
    /\ UNCHANGED <<fetchVars, repoVars, treeVars, viewVars, autoVars>>

\* extension.ts lines 56-66: the command pr-comments.clear
ClearCommand ==
    /\ refreshes < MaxRefreshes
    /\ clearCommentsStorage
    /\ setCurrentRepoInfo(None)
    /\ setComments(<<>>)
    /\ UNCHANGED invocation

InitFetch ==
    /\ pc = "idle"
    /\ authToken = <<>>
    /\ attempt = 0
    /\ lastError = None
    /\ result = None
    /\ response = None
    /\ delay = None
    /\ calls = 0
    /\ sleeps = 0

InitTree ==
    /\ commentsByFile = <<>>
    /\ threads = <<>>
    /\ reviewers = {}
    /\ filterOptions = NoFilter
    /\ refreshes = 0

\* utils/autoRefresh.ts lines 5, 6 and 14, and the default of the setting
InitAuto ==
    /\ refreshTimer = None
    /\ isRefreshing = FALSE
    /\ callbacks = None
    /\ refreshInterval = 0
    /\ inFlight = 0
    /\ started = 0

InitRepo ==
    /\ remote = None
    /\ parsedRemote = None
    /\ branch = None
    /\ prNumber = None

\* fetchComments.ts line 10 and commentActions.ts line 8
InitCommand ==
    /\ commentsStorage = <<>>
    /\ currentRepoInfo = None
    /\ invocation = [i \in Invocations |-> NotCalled]

Init == InitFetch /\ InitTree /\ InitAuto /\ InitRepo /\ InitCommand /\ lastCall = "none"

NextFetch ==
    \/ \E token \in TokenArgs, configToken \in ConfigTokens : Invoke(token, configToken)
    \/ \E r \in Responses : Respond(r)
    \/ ResumeSuccess
    \/ ResumeFailure
    \/ Wake

\* Every listing call settles and every timer fires.
FairnessFetch ==
    /\ WF_vars(\E r \in Responses : Respond(r))
    /\ WF_vars(ResumeSuccess)
    /\ WF_vars(ResumeFailure)
    /\ WF_vars(Wake)

NextTree ==
    \/ FirstLoad
    \/ \E map \in ReloadMaps : Reload(map)

SpecTree == Init /\ [][NextTree]_vars

NextView ==
    \/ \E map \in ViewMaps : ShowComments(map)
    \/ \E options \in FilterChoices : Filter(options)
    \/ ClearFilters

SpecView == Init /\ [][NextView]_vars

NextAuto ==
    \/ \E refreshCallbacks \in CallbackObjects : startAutoRefresh(refreshCallbacks)
    \/ stopAutoRefresh
    \/ \E minutes \in IntervalSettings : updateAutoRefreshInterval(minutes)
    \/ disposeAutoRefresh
    \/ Tick
    \/ \E resolved \in BOOLEAN : Settle(resolved)

SpecAuto == Init /\ [][NextAuto]_vars

NextRepo ==
    \/ \E input \in ShapedRemotes \cup OtherRemotes : ParseRemote(input)
    \/ \E branchName \in BranchNames : ExtractPRNumber(branchName)

SpecRepo == Init /\ [][NextRepo]_vars

SpecFetch == Init /\ [][NextFetch]_vars /\ FairnessFetch

NextCommand ==
    \/ \E i \in Invocations, kind \in DirectKinds, hasValidToken \in BOOLEAN, folders \in 0..2 :
            fetchPRComments(i, kind, hasValidToken, folders)
    \/ \E i \in Invocations : TokenPromptClosed(i)
    \/ \E i \in Invocations, picked \in BOOLEAN : FolderSelected(i, picked)
    \/ \E i \in Invocations, info \in RepositoryInfos : RepositoryInfoResolved(i, info)
    \/ \E i \in Invocations, fetched \in FetchResults : FetchSettled(i, fetched)
    \/ \E i \in Invocations : HandlerResumes(i)
    \/ onRefresh
    \/ replyToCommentCommand
    \/ ClearCommand

SpecCommand == Init /\ [][NextCommand]_vars


(***************************************************************************)
(* Properties of the fetch client.                                         *)
(***************************************************************************)
\* the failure the most recent listing call ended with
LastThrown == response[1].error

\* C1: one invocation of fetchPRCommentsWithRetry makes at most 3 listing
\* calls, whatever the attempts fail with.
C1_AtMostThreeAttempts == calls <= 3

C1_Witness ==
    /\ pc = "done"
    /\ calls = 3
    /\ sleeps = 2
    /\ ~result[1].success

\* C2: when an attempt fails with status 401 or 404, the continuation returns
\* success=false in that very step, with no sleep and no further listing call,
\* on whichever attempt this happens; and a returned invocation does nothing
\* more.
C2_TerminalStatusReturnsAtOnce ==
    [][ /\ ( /\ pc = "resumed"
             /\ ~response[1].ok
             /\ LastThrown.status \in {Some(401), Some(404)} )
           => ( /\ pc' = "done"
                /\ result' # None
                /\ ~result'[1].success
                /\ calls' = calls
                /\ sleeps' = sleeps )
        /\ pc = "done" => (pc' = "done" /\ calls' = calls /\ sleeps' = sleeps)
      ]_vars

C2_Witness ==
    /\ pc = "done"
    /\ response # None
    /\ ~response[1].ok
    /\ LastThrown.status = Some(404)
    /\ calls = 3
    /\ result = Some(Failure(Some(MSG_NOT_FOUND)))

\* the credential is empty or made of whitespace only
IsBlank(token) == \A i \in 1..Len(token) : token[i] \in {" ", "\t"}

\* the credential begins with one of the recognized prefixes
BeginsWithRecognizedPrefix(token) ==
    \E p \in validPrefixes :
        /\ Len(token) >= Len(p)
        /\ \A i \in 1..Len(p) : token[i] = p[i]

\* C3: a credential that is absent, empty or blank, or that has no recognized
\* prefix and fewer than 20 characters, makes the invocation return
\* success=false with an error text and without any listing call; every other
\* credential passes the local check, that is, the first listing call is made.
C3_CredentialPrecheck ==
    pc # "idle" =>
        IF IsBlank(authToken)
           \/ (~BeginsWithRecognizedPrefix(authToken) /\ Len(authToken) < 20)
        THEN /\ pc = "done"
             /\ ~result[1].success
             /\ result[1].error # None
             /\ result[1].error[1] # ""
             /\ calls = 0
        ELSE calls >= 1

C3_Witness ==
    /\ pc = "done"
    /\ Len(authToken) = 19
    /\ ~IsBlank(authToken)
    /\ ~BeginsWithRecognizedPrefix(authToken)
    /\ ~result[1].success
    /\ calls = 0

\* C4: once the first listing call is made, and every listing call settles,
\* the invocation eventually returns a FetchResult; there is no state in which
\* it has ended without one.
C4_EventuallyReturns == (pc = "await") ~> (pc = "done" /\ result # None)

C4_Witness ==
    /\ pc = "done"
    /\ calls = 3
    /\ sleeps = 3
    /\ result # None

\* the text of a thrown value: an Error's message, a thrown string itself,
\* the string conversion of any other object
ThrownText(e) == IF e.kind = "object" THEN "[object Object]" ELSE e.message

\* C5: when the third attempt fails with a retryable error (so all three
\* did), the result is success=false and its error is the text of the third
\* attempt's failure, or the generic fallback when that text is empty.
C5_ExhaustedReturnsLastError ==
    ( /\ pc = "done"
      /\ calls = 3
      /\ ~response[1].ok
      /\ LastThrown.status \notin {Some(401), Some(404)} )
    => /\ ~result[1].success
       /\ result[1].error =
            Some(IF ThrownText(LastThrown) # ""
                 THEN ThrownText(LastThrown)
                 ELSE "Failed to fetch PR comments after multiple attempts")

C5_Witness ==
    /\ pc = "done"
    /\ calls = 3
    /\ ~response[1].ok
    /\ LastThrown.message = "socket hang up"
    /\ result[1].error = Some("socket hang up")

\* C6: every FetchResult returned carries an error text if and only if its
\* success flag is false.
C6_ErrorIffFailure ==
    result # None => ((result[1].error # None) <=> ~result[1].success)

C6_Witness ==
    /\ pc = "done"
    /\ result[1].success
    /\ result[1].error = None
    /\ Len(result[1].comments) = 1
    /\ calls = 2

\* C7: with no retry-after hint, the delay slept after attempt k is
\* 1000 * 2^k ms: 1000, 2000, 4000 for k = 0, 1, 2.
C7_BackoffDelay ==
    (pc = "sleep" /\ LastThrown.retryAfter = None)
    => delay = Some(CASE attempt = 0 -> 1000 [] attempt = 1 -> 2000 [] attempt = 2 -> 4000)

C7_Witness ==
    /\ pc = "sleep"
    /\ LastThrown.retryAfter = None
    /\ attempt = 2
    /\ delay = Some(4000)

\* C8 (as claimed): after a rate-limited failure (403 or 429) the delay is
\* hint * 1000 ms exactly when the retry-after hint parses as a non-negative
\* integer, and 1000 * 2^attempt ms for an absent, unparseable or negative hint.
C8_HintedDelayAsClaimed ==
    (pc = "sleep" /\ LastThrown.status \in {Some(403), Some(429)})
    => LET hint == LastThrown.retryAfter
           seconds == IF Truthy(hint) THEN ParseInt(hint[1]) ELSE None
       IN delay = Some(IF seconds # None /\ seconds[1] >= 0
                       THEN seconds[1] * 1000
                       ELSE 1000 * Pow2(attempt))


(***************************************************************************)
(* Properties of the thread builder.                                       *)
(***************************************************************************)
\* the list handed to the builder for the i-th file, and the threads built
ListOf(i) == commentsByFile[i].value
ThreadsOf(i) == threads[i].value
Files == 1..Len(commentsByFile)

\* every thread of every file
AllThreads == UNION { { ThreadsOf(i)[j] : j \in 1..Len(ThreadsOf(i)) } : i \in Files }

RepliesOf(thread) == { thread.replies[j] : j \in 1..Len(thread.replies) }

\* a reply whose parent id is the id of no root comment of its list
IsOrphan(comment, list) ==
    /\ comment.inReplyToId # None
    /\ ~\E k \in 1..Len(list) :
            /\ list[k].inReplyToId = None
            /\ list[k].id = comment.inReplyToId[1]

\* C9: a reply whose parent id matches no root comment of its list is the root
\* or a reply of no thread; every participant of a thread is the author of
\* its root or of a reply of the list that is addressed to it and is no
\* orphan; the total comment count is the number of comments that are no
\* orphans and the thread count is the number of root comments.
C9_OrphanRepliesDropped ==
    /\ Len(threads) = Len(commentsByFile)
    /\ \A i \in Files : \A k \in 1..Len(ListOf(i)) :
          IsOrphan(ListOf(i)[k], ListOf(i)) =>
              \A t \in AllThreads :
                  /\ t.id # ListOf(i)[k].id
                  /\ \A r \in RepliesOf(t) : r.id # ListOf(i)[k].id
    /\ \A i \in Files : \A j \in 1..Len(ThreadsOf(i)) :
          LET t == ThreadsOf(i)[j]
          IN \A n \in 1..Len(t.participants) :
                \/ t.participants[n] = t.rootComment.user
                \/ \E k \in 1..Len(ListOf(i)) :
                      /\ ~IsOrphan(ListOf(i)[k], ListOf(i))
                      /\ ListOf(i)[k].inReplyToId = Some(t.id)
                      /\ ListOf(i)[k].user = t.participants[n]
    /\ getTotalCommentCount =
          Cardinality(UNION { { <<i, k>> : k \in { x \in 1..Len(ListOf(i)) :
                                    ~IsOrphan(ListOf(i)[x], ListOf(i)) } } : i \in Files })
    /\ getThreadCount =
          Cardinality(UNION { { <<i, k>> : k \in { x \in 1..Len(ListOf(i)) :
                                    ListOf(i)[x].inReplyToId = None } } : i \in Files })

\* a.ts holds a thread with a reply by alice and a reply by bob to comment 9,
\* the root of a thread in b.ts; bob is no participant anywhere
C9_Witness ==
    /\ Len(commentsByFile) = 2
    /\ Len(ListOf(1)) = 3
    /\ \E k \in 1..3 :
          /\ ListOf(1)[k].inReplyToId = Some(9)
          /\ ListOf(1)[k].user = "bob"
    /\ \E t \in AllThreads : t.id = 9
    /\ \E t \in AllThreads : Len(t.replies) = 1
    /\ \A t \in AllThreads : \A n \in 1..Len(t.participants) : t.participants[n] # "bob"
    /\ getTotalCommentCount = 3
    /\ getThreadCount = 2

\* C10: in every thread the root comment has no inReplyToId and is the
\* comment the thread is named after, and every reply has the thread's id as
\* its inReplyToId; no comment with inReplyToId set is the root of a thread,
\* whether or not its parent is in the list.
C10_RepliesBelongToTheirThread ==
    /\ \A t \in AllThreads :
          /\ t.rootComment.inReplyToId = None
          /\ t.rootComment.id = t.id
          /\ \A r \in RepliesOf(t) : r.inReplyToId = Some(t.id)
    /\ \A i \in Files : \A k \in 1..Len(ListOf(i)) :
          ListOf(i)[k].inReplyToId # None =>
              \A t \in AllThreads : t.id # ListOf(i)[k].id

\* one file, a thread with one reply, and a reply to comment 9, which is in
\* no list
C10_Witness ==
    /\ Len(commentsByFile) = 1
    /\ Len(ListOf(1)) = 3
    /\ \E k \in 1..3 : ListOf(1)[k].inReplyToId = Some(9)
    /\ getThreadCount = 1
    /\ getTotalCommentCount = 2

\* the place of the first reply of the thread written by user (0: none)
FirstReplyBy(thread, user) ==
    IF \E j \in 1..Len(thread.replies) : thread.replies[j].user = user
    THEN CHOOSE j \in 1..Len(thread.replies) :
            /\ thread.replies[j].user = user
            /\ \A k \in 1..(j - 1) : thread.replies[k].user # user
    ELSE 0

\* C11: in every thread, participants holds no handle twice, its first entry
\* is the author of the root comment, its entries are exactly the root's
\* author and the authors of the thread's replies, and the entries behind the
\* first stand in the order in which their first replies stand in replies.
C11_ParticipantsInOrderOfAppearance ==
    \A t \in AllThreads :
        LET p == t.participants
        IN /\ Len(p) >= 1
           /\ p[1] = t.rootComment.user
           /\ \A m, n \in 1..Len(p) : m # n => p[m] # p[n]
           /\ { p[n] : n \in 1..Len(p) } =
                  {t.rootComment.user} \cup { r.user : r \in RepliesOf(t) }
           /\ \A m, n \in 2..Len(p) :
                  m < n => FirstReplyBy(t, p[m]) < FirstReplyBy(t, p[n])

\* carol's thread with a reply by alice listed first and an earlier reply by
\* bob listed second: bob stands before alice in replies and in participants
C11_Witness ==
    /\ Len(commentsByFile) = 1
    /\ Len(ListOf(1)) = 3
    /\ ListOf(1)[2].user = "alice"
    /\ ListOf(1)[3].user = "bob"
    /\ \E t \in AllThreads :
          /\ t.rootComment.user = "carol"
          /\ Len(t.replies) = 2
          /\ t.replies[1].user = "bob"
          /\ t.participants = <<"carol", "bob", "alice">>

\* C12: in every thread, a reply never stands behind a reply created later,
\* and a reply without a creation time never stands behind a reply that has
\* one.
C12_RepliesByCreationTime ==
    \A t \in AllThreads : \A m, n \in 1..Len(t.replies) :
        m < n =>
            /\ t.replies[n].createdAt = None => t.replies[m].createdAt = None
            /\ (t.replies[m].createdAt # None /\ t.replies[n].createdAt # None)
                  => t.replies[m].createdAt[1] <= t.replies[n].createdAt[1]

\* the list holds a reply created at 2 before a reply without creation time;
\* the thread holds them the other way round
C12_Witness ==
    /\ Len(commentsByFile) = 1
    /\ Len(ListOf(1)) = 3
    /\ ListOf(1)[2].createdAt = Some(2)
    /\ ListOf(1)[3].createdAt = None
    /\ \E t \in AllThreads :
          /\ Len(t.replies) = 2
          /\ t.replies[1].id = 3
          /\ t.replies[2].id = 2

\* the place of the root comment of thread in the list of the i-th file
PlaceOfRoot(i, thread) ==
    CHOOSE k \in 1..Len(ListOf(i)) :
        /\ ListOf(i)[k].id = thread.id
        /\ \A x \in 1..(k - 1) : ListOf(i)[x].id # thread.id

\* C13: the threads of a file stand by line ascending, and threads on the
\* same line stand in the order in which their root comments stand in the
\* list handed to the builder.
C13_ThreadsByLineStable ==
    \A i \in Files : \A m, n \in 1..Len(ThreadsOf(i)) :
        m < n =>
            /\ ThreadsOf(i)[m].line <= ThreadsOf(i)[n].line
            /\ ThreadsOf(i)[m].line = ThreadsOf(i)[n].line
                  => PlaceOfRoot(i, ThreadsOf(i)[m]) < PlaceOfRoot(i, ThreadsOf(i)[n])

\* roots on lines 20, 10, 10 in this order: the threads are those of the
\* second, the third and the first comment
C13_Witness ==
    /\ Len(commentsByFile) = 1
    /\ Len(ListOf(1)) = 3
    /\ ListOf(1)[1].line = 20
    /\ Len(ThreadsOf(1)) = 3
    /\ ThreadsOf(1)[1].id = 2
    /\ ThreadsOf(1)[2].id = 3
    /\ ThreadsOf(1)[3].id = 1

\* the threads setComments builds from the map
ThreadsBuiltFrom(map) ==
    [i \in 1..Len(map) |-> [key |-> map[i].key, value |-> buildThreads(map[i].value)]]

\* the authors of the comments of the map
AuthorsIn(map) ==
    UNION { { map[i].value[j].user : j \in 1..Len(map[i].value) } : i \in 1..Len(map) }

\* C14: after setComments(M) the threads, the reviewers and both counts are
\* those built from M alone, whatever the provider held before; and a call of
\* setComments with the map the provider was last given leaves threads and
\* reviewers as they are.
C14_SetCommentsFromScratch ==
    [][ lastCall' = "setComments" =>
          \E built \in {ThreadsBuiltFrom(commentsByFile')} :
             /\ threads' = built
             /\ reviewers' = AuthorsIn(commentsByFile')
             /\ getTotalCommentCount' = TotalCommentCountOf(built)
             /\ getThreadCount' = ThreadCountOf(built)
             /\ (commentsByFile' = commentsByFile /\ lastCall = "setComments")
                   => (threads' = threads /\ reviewers' = reviewers)
      ]_vars

\* the third setComments call in a row, the second one with the map of one
\* root comment by alice
C14_Witness ==
    /\ lastCall = "setComments"
    /\ refreshes = 3
    /\ Len(commentsByFile) = 1
    /\ Len(ListOf(1)) = 1
    /\ reviewers = {"alice"}
    /\ getThreadCount = 1
    /\ getTotalCommentCount = 1

(***************************************************************************)
(* Properties of the filter.                                               *)
(***************************************************************************)
\* the threads shown in the tree, each as the pair of its file and its id
Displayed ==
    UNION { { <<getFileItems[i].filePath, getThreadItems(getFileItems[i])[j].id>>
                : j \in 1..Len(getThreadItems(getFileItems[i])) }
            : i \in 1..Len(getFileItems) }

\* every thread the provider holds, as the pair of its file and its id
Held ==
    UNION { { <<threads[i].key, threads[i].value[j].id>> : j \in 1..Len(threads[i].value) }
            : i \in 1..Len(threads) }

\* part is a run of consecutive characters of text
IsSubstring(part, text) ==
    \E from \in 1..(Len(text) + 1) : \E to \in 0..Len(text) :
        SubSeq(text, from, to) = part

\* every predicate of the filter options that is set holds of the thread of
\* the file; reviewer and file are set when a non-empty string is given,
\* resolved when a boolean is given
Wanted(path, thread) ==
    /\ (filterOptions.reviewer \notin {None, Some("")})
          => filterOptions.reviewer[1] \in
                { thread.participants[n] : n \in 1..Len(thread.participants) }
    /\ filterOptions.resolved # None => thread.resolved = filterOptions.resolved[1]
    /\ (filterOptions.file \notin {None, Some(<<>>)})
          => IsSubstring(filterOptions.file[1], Characters(path))

SomePredicateSet ==
    \/ filterOptions.reviewer \notin {None, Some("")}
    \/ filterOptions.resolved # None
    \/ filterOptions.file \notin {None, Some(<<>>)}

\* C15: whichever of reviewer, resolved and file are set in the filter
\* options, a thread is shown if and only if its participants contain the
\* reviewer (when set), its resolved flag equals the requested boolean (when
\* set) and the path of its file contains the substring (when set).
C15_DisplayedIffAllSetPredicatesHold ==
    /\ Displayed \subseteq Held
    /\ \A i \in 1..Len(threads) : \A j \in 1..Len(threads[i].value) :
          <<threads[i].key, threads[i].value[j].id>> \in Displayed
              <=> Wanted(threads[i].key, threads[i].value[j])

\* all three predicates set: of alice's open thread with a reply by bob in
\* a.ts and carol's thread in b.ts, only the first is shown
C15_Witness ==
    /\ filterOptions = [reviewer |-> Some("bob"), resolved |-> Some(FALSE),
                        file |-> Some(<<"t", "s">>)]
    /\ Held = { <<"a.ts", 1>>, <<"b.ts", 9>> }
    /\ Displayed = { <<"a.ts", 1>> }

\* C16: after clearFilter no predicate is left in the filter options: every
\* thread is shown, and the file items, with their comment counts, are those
\* got without filter, whatever the options were before.
C16_ClearFilterShowsAll ==
    lastCall = "clearFilter" =>
        /\ ~SomePredicateSet
        /\ Displayed = Held
        /\ getFileItems = FileItemsBy(NoFilter, threads)
        /\ \A i \in 1..Len(threads) :
              threads[i].value # <<>> =>
                  \E n \in 1..Len(getFileItems) :
                      /\ getFileItems[n].filePath = threads[i].key
                      /\ getFileItems[n].commentCount =
                            Cardinality(UNION {
                                { <<j, k>> : k \in 0..Len(threads[i].value[j].replies) }
                                : j \in 1..Len(threads[i].value) })

\* clearFilter was the third call and two files with three comments are shown
C16_Witness ==
    /\ lastCall = "clearFilter"
    /\ refreshes = 3
    /\ Len(getFileItems) = 2
    /\ getFileItems[1].commentCount = 2
    /\ getFileItems[2].commentCount = 1
    /\ Displayed = { <<"a.ts", 1>>, <<"b.ts", 9>> }

RECURSIVE SumOfCommentCounts(_)
SumOfCommentCounts(items) ==
    IF items = <<>> THEN 0
    ELSE Head(items).commentCount + SumOfCommentCounts(Tail(items))

\* the counts over the threads shown under the filter
FilteredCommentCount == SumOfCommentCounts(getFileItems)
FilteredThreadCount == Cardinality(Displayed)

\* C17: the total comment count is the number of root comments and replies
\* of all threads and the thread count is the number of threads; the counts
\* over the shown threads equal them when every thread satisfies the filter
\* and are zero when no thread does.
C17_CountsUnderFilter ==
    /\ getTotalCommentCount =
          Cardinality(UNION { UNION {
              { <<i, j, k>> : k \in 0..Len(threads[i].value[j].replies) }
              : j \in 1..Len(threads[i].value) } : i \in 1..Len(threads) })
    /\ getThreadCount = Cardinality(Held)
    /\ (\A i \in 1..Len(threads) : \A j \in 1..Len(threads[i].value) :
            Wanted(threads[i].key, threads[i].value[j]))
          => /\ FilteredCommentCount = getTotalCommentCount
             /\ FilteredThreadCount = getThreadCount
    /\ (\A i \in 1..Len(threads) : \A j \in 1..Len(threads[i].value) :
            ~Wanted(threads[i].key, threads[i].value[j]))
          => /\ FilteredCommentCount = 0
             /\ FilteredThreadCount = 0

\* the filter asks for open threads in paths with "ts"; both threads, with
\* three comments, satisfy it
C17_Witness ==
    /\ filterOptions = [reviewer |-> None, resolved |-> Some(FALSE),
                        file |-> Some(<<"t", "s">>)]
    /\ getThreadCount = 2
    /\ getTotalCommentCount = 3
    /\ FilteredThreadCount = 2
    /\ FilteredCommentCount = 3

(***************************************************************************)
(* Properties of auto-refresh.                                             *)
(***************************************************************************)
\* C18: while an onRefresh call started by the timer has not settled, no
\* step starts another one (a timer tick in that time is skipped), and never
\* more than one such call is in flight.
C18_OneRefreshInFlight ==
    [][ /\ inFlight > 0 => started' = started
        /\ inFlight' <= 1
      ]_vars

\* the second tick came while the first refresh was in flight and was skipped
C18_Witness ==
    /\ lastCall = "performRefresh: skipped"
    /\ isRefreshInProgress
    /\ inFlight = 1
    /\ started = 1

\* C19, as claimed: once startAutoRefresh or updateAutoRefreshInterval has
\* run with the setting at 0 or below, auto-refresh is not active, whatever
\* the timer was before the call.
C19_NonPositiveIntervalDeactivates ==
    (lastCall \in {"startAutoRefresh", "updateAutoRefreshInterval"} /\ refreshInterval <= 0)
        => ~isAutoRefreshActive

\* C20: stopAutoRefresh leaves auto-refresh inactive; and while it is
\* inactive no step starts an onRefresh call, and it becomes active again
\* only by startAutoRefresh, called directly or by
\* updateAutoRefreshInterval, with a positive interval.
C20_StoppedUntilStartedAgain ==
    [][ /\ lastCall' = "stopAutoRefresh" => ~isAutoRefreshActive'
        /\ ~isAutoRefreshActive =>
              /\ started' = started
              /\ isAutoRefreshActive' =>
                    /\ lastCall' \in {"startAutoRefresh", "updateAutoRefreshInterval"}
                    /\ refreshInterval' > 0
      ]_vars

\* stopAutoRefresh ran while a refresh started by the timer was in flight,
\* with callbacks stored and a positive interval configured
C20_Witness ==
    /\ lastCall = "stopAutoRefresh"
    /\ ~isAutoRefreshActive
    /\ callbacks # None
    /\ refreshInterval > 0
    /\ inFlight = 1
    /\ started = 1

(***************************************************************************)
(* Further properties of the fetch client.                                 *)
(***************************************************************************)
\* the places of the records of the last response that have a non-empty
\* path and a line number
CompleteRecords ==
    { k \in 1..Len(response[1].data) :
        response[1].data[k].path # "" /\ response[1].data[k].line # None }

\* C21: in a successful result every comment has a non-empty path and a
\* line number, and the comments are the records of the response that have
\* both, one comment per such record and in the order of the response;
\* records lacking either are left out.
C21_OnlyCompleteRecordsInOrder ==
    (pc = "done" /\ result[1].success) =>
        LET comments == result[1].comments
            data == response[1].data
        IN /\ Len(comments) = Cardinality(CompleteRecords)
           /\ \A n \in 1..Len(comments) : comments[n].path # ""
           /\ \A k \in CompleteRecords :
                 LET n == Cardinality({ j \in CompleteRecords : j <= k })
                 IN /\ comments[n].id = data[k].id
                    /\ comments[n].path = data[k].path
                    /\ comments[n].line = data[k].line[1]

\* the first record of the response has no line, the second has path and line:
\* the result holds the second alone
C21_Witness ==
    /\ pc = "done"
    /\ result[1].success
    /\ Len(response[1].data) = 2
    /\ response[1].data[1].line = None
    /\ 2 \in CompleteRecords
    /\ Len(result[1].comments) = 1
    /\ result[1].comments[1].id = 2

(***************************************************************************)
(* Properties of git/repository.ts.                                        *)
(***************************************************************************)
\* C22, as claimed: parseGitRemoteUrl returns the owner and the repository
\* name without .git for SSH-style and HTTPS-style URLs of a GitHub host and
\* for bare owner/repo, and returns no match for every other input, SSH-style
\* and HTTPS-style URLs of another forge among them.
C22_OnlySupportedShapesMatch ==
    remote # None =>
        IF \/ remote[1].shape = "bare"
           \/ remote[1].shape \in {"ssh", "https"} /\ remote[1].host \in GitHubHosts
        THEN parsedRemote = Some([owner |-> remote[1].owner, repo |-> remote[1].repo])
        ELSE parsedRemote = None

\* the runs of digits of a branch name
DigitRuns(b) ==
    { SubSeq(b, i, j) : i \in 1..Len(b), j \in 1..Len(b) } \ {<<>>}

AllDigits(d) == d # <<>> /\ \A n \in 1..Len(d) : IsDigit(d[n])

\* b is word, an optional separator, the digits d, and something that does
\* not begin with a digit
WordThenDigits(b, word, d) ==
    \E x \in {<<>>, <<"-">>, <<"_">>} :
        LET n == Len(word) + Len(x) + Len(d)
        IN /\ AllDigits(d)
           /\ Len(b) >= n
           /\ LowerAll(SubSeq(b, 1, Len(word))) = word
           /\ SubSeq(b, Len(word) + 1, Len(word) + Len(x)) = x
           /\ SubSeq(b, Len(word) + Len(x) + 1, n) = d
           /\ Len(b) > n => ~IsDigit(b[n + 1])

\* the leftmost place of b with a separator followed by word, an optional
\* separator and digits has the digits d
EmbeddedWordThenDigits(b, word, d) ==
    \E i \in 1..Len(b) :
        /\ b[i] \in {"-", "_"}
        /\ WordThenDigits(SubSeq(b, i + 1, Len(b)), word, d)
        /\ \A k \in 1..(i - 1) :
              b[k] \in {"-", "_"} =>
                  ~\E e \in DigitRuns(b) : WordThenDigits(SubSeq(b, k + 1, Len(b)), word, e)

\* pattern k of the list captures the digits d in b
Captures(k, b, d) ==
    CASE k = 1 -> WordThenDigits(b, <<"p", "r">>, d)
      [] k = 2 -> WordThenDigits(b, <<"p", "u", "l", "l">>, d)
      [] k = 3 -> /\ AllDigits(d)
                  /\ Len(b) > Len(d)
                  /\ SubSeq(b, 1, Len(d)) = d
                  /\ b[Len(d) + 1] \in {"-", "_"}
      [] k = 4 -> EmbeddedWordThenDigits(b, <<"p", "r">>, d)
      [] k = 5 -> EmbeddedWordThenDigits(b, <<"p", "u", "l", "l">>, d)

C24_SleepFollowedByAttempt ==
    [][(pc = "sleep" /\ pc' # "sleep") => (pc' = "await" /\ calls' = calls + 1)]_vars

\* C25, as claimed: filters set one after the other add up: when the filter
\* by status follows the filter by reviewer with no clear in between, a
\* thread is shown if and only if its participants contain the reviewer and
\* its resolved flag equals the status.
C25_FiltersAccumulate ==
    [][ ( /\ lastCall = "setFilter"
          /\ filterOptions.reviewer \notin {None, Some("")}
          /\ filterOptions.resolved = None
          /\ filterOptions.file = None
          /\ lastCall' = "setFilter"
          /\ refreshes' = refreshes + 1
          /\ filterOptions'.reviewer = None
          /\ filterOptions'.resolved # None
          /\ filterOptions'.file = None )
        => \A i \in 1..Len(threads) : \A j \in 1..Len(threads[i].value) :
              <<threads[i].key, threads[i].value[j].id>> \in Displayed'
                  <=> /\ filterOptions.reviewer[1] \in
                            { threads[i].value[j].participants[n] :
                                  n \in 1..Len(threads[i].value[j].participants) }
                      /\ threads[i].value[j].resolved = filterOptions'.resolved[1] ]_vars

\* the ways a cycle of performRefresh ends
SettledWell == {"onRefreshComplete", "completed"}
SettledBadly == {"onRefreshError", "failed", "TypeError"}

\* C29: whenever no cycle is in flight isRefreshInProgress() is false: the
\* flag is reset when a cycle ends, with success or with failure, so after a
\* failed cycle the next tick is not skipped.
C29_FlagFalseWhenNothingInFlight ==
    /\ inFlight = 0 => ~isRefreshInProgress
    /\ lastCall \in SettledWell \cup SettledBadly => ~isRefreshInProgress
    /\ lastCall = "performRefresh: skipped" => inFlight > 0

\* a cycle has failed and its error handler has run; the timer still runs
C29_Witness ==
    /\ lastCall = "onRefreshError"
    /\ inFlight = 0
    /\ started = 1
    /\ isAutoRefreshActive
    /\ ~isRefreshInProgress

\* C30, as claimed: when disposeAutoRefresh has run while the onRefresh of a
\* cycle was in flight, the cycle ends without an error that nobody handles,
\* and with isRefreshInProgress() false.
C30_DisposeWhileInFlight ==
    (callbacks = None /\ lastCall \in SettledWell \cup SettledBadly)
        => (lastCall # "TypeError" /\ ~isRefreshInProgress)

(***************************************************************************)
(* Properties of the fetch command and the comment store.                  *)
(***************************************************************************)
\* the store a successful result is grouped into
StoreOf(fetched) == GroupByPath(fetched.comments, <<>>)

\* the invocation i ends in this step, with value
ReturnsNow(i, value) ==
    /\ invocation[i].returned = None
    /\ invocation'[i].returned = Some(value)

\* C26: an invocation of fetchPRComments that ends for want of a token, of a
\* workspace folder, of repository info or of a PR number, or with a
\* FetchResult that is no success, returns false and leaves the store as it
\* was; the store changes only when a successful result is stored or when
\* the clear command empties it.
C26_FailureLeavesStore ==
    [][ /\ \A i \in Invocations :
              /\ ReturnsNow(i, FALSE) => commentsStorage' = commentsStorage
              /\ ReturnsNow(i, TRUE) =>
                    /\ invocation[i].pc = "fetching"
                    /\ invocation[i].repoInfo[1].prNumber \notin {None, Some(0)}
                    /\ invocation'[i].result[1].success
              /\ (invocation[i].pc = "fetching" /\ invocation'[i].pc # "fetching"
                      /\ ~invocation'[i].result[1].success)
                    => ReturnsNow(i, FALSE)
              /\ (invocation[i].pc \in {"idle", "tokenPrompt", "selectFolder", "repoInfo"}
                      /\ invocation'[i].pc \notin {invocation[i].pc, "selectFolder",
                                                   "repoInfo", "fetching", "tokenPrompt"})
                    => ReturnsNow(i, FALSE)
        /\ commentsStorage' # commentsStorage =>
              \/ commentsStorage' = <<>> /\ invocation' = invocation
              \/ \E i \in Invocations :
                    /\ ReturnsNow(i, TRUE)
                    /\ commentsStorage' = StoreOf(invocation'[i].result[1]) ]_vars

\* the second invocation got a result that is no success, and the comments
\* the first one stored are still there
C26_Witness ==
    /\ invocation[1].returned = Some(TRUE)
    /\ invocation[2].returned = Some(FALSE)
    /\ invocation[2].result = Some([success |-> FALSE, comments |-> <<>>])
    /\ commentsStorage = StoreOf(invocation[1].result[1])
    /\ commentsStorage # <<>>

\* C27: with invocations of fetchPRComments that overlap, the store is never
\* a mixture: in every state it is the grouping by path of the comments of
\* one successful result, or empty as before any fetch wrote.
C27_StoreOfOneResult ==
    \/ commentsStorage = <<>>
    \/ \E i \in Invocations :
          /\ invocation[i].returned = Some(TRUE)
          /\ commentsStorage = StoreOf(invocation[i].result[1])

\* the first invocation still waits for its result while the second, called
\* later, has stored its own; then the first one stores on top
C27_Witness ==
    /\ invocation[1].returned = Some(TRUE)
    /\ invocation[2].pc = "finished"
    /\ invocation[2].returned = Some(TRUE)
    /\ invocation[1].pc = "returned"
    /\ invocation[1].result[1].comments # <<>>
    /\ invocation[2].result[1].comments # <<>>
    /\ invocation[1].result # invocation[2].result
    /\ commentsStorage = StoreOf(invocation[1].result[1])
    /\ commentsByFile = StoreOf(invocation[2].result[1])

\* C28, as claimed: when a fetch has returned true for owner, repo and PR
\* number, getCurrentRepoInfo() gives that tuple.
C28_RepoInfoSetBySuccessfulFetch ==
    [][ \A i \in Invocations :
            ReturnsNow(i, TRUE) => getCurrentRepoInfo' = invocation'[i].repoInfo ]_vars

====
